---- MODULE Spec2Model ----
(***************************************************************************)
(* Model of tascord/screens, src/main.rs: create_displays walks the        *)
(* monitor inventory, looks each monitor up in the configuration and       *)
(* calls the recursive spawn_display, which for a Webpage leaf spawns the  *)
(* browser, sleeps, searches the window, measures it and issues an i3-msg  *)
(* relative move, and for a Split divides its rectangle among its items.   *)
(***************************************************************************)
EXTENDS Integers, Sequences, FiniteSets, TLC

VARIABLES
    monitors,        \* Vec<Monitor>: the inventory, in order
    displays,        \* HashMap<u32, Display>: the configuration
    overflowChecks,  \* build profile: TRUE = debug, FALSE = release
    rootSize,        \* the size argument of the outermost spawn_display call
    mi,              \* index of the monitor the for loop of create_displays is at
    stack,           \* call stack of spawn_display, innermost frame last
    pc,              \* position in the code
    panicMsg,        \* message of the panic that aborted the process
    class_name,      \* local of the Webpage arm
    window_id,       \* local: lines of the trimmed stdout of xdotool
    info,            \* local: stdout of xwininfo, as labelled lines
    current,         \* local: <<current_x, current_y>>
    cmd,             \* argv of the i3-msg command last executed
    spawnArgs,       \* argv of the firefox process last spawned
    result,          \* how the Webpage arm last entered ended
    log,             \* external operations performed so far, in order
    placed           \* one record per browser spawned so far, in order

vars == <<monitors, displays, overflowChecks, rootSize, mi, stack, pc, panicMsg,
          class_name, window_id, info, current, cmd, spawnArgs, result, log,
          placed>>

----------------------------------------------------------------------------
(* Bounds of the model *)

MaxItems == 3
ChainDepth == 10

(* Program constants *)

I16Min == -32768
I16Max == 32767
U16Mod == 65536
DefaultWidth == 800
DefaultHeight == 600
DefaultSize == <<DefaultWidth, DefaultHeight>>

----------------------------------------------------------------------------
(* Fixed-width integer arithmetic *)

Wrap16(v) == ((v - I16Min) % U16Mod) + I16Min

Overflows16(v) == v < I16Min \/ v > I16Max

CastLenU16(n) == n % U16Mod

CastI16(v) == Wrap16(v)

Abs(v) == IF v < 0 THEN -v ELSE v

----------------------------------------------------------------------------
(* The Display enum *)

Webpage(u) == [kind |-> "Webpage", url |-> u, vertical |-> FALSE, items |-> <<>>]

Split(v, its) == [kind |-> "Split", url |-> "", vertical |-> v, items |-> its]

Monitor(i, p) == [id |-> i, pos |-> p]

----------------------------------------------------------------------------
(* Split arm of spawn_display: the geometry *)

ItemCount(items) == CastLenU16(Len(items))

\* a division that rounds up instead of down
SplitDimCeil(vertical, size, item_count) ==
    IF vertical THEN (size[2] + item_count - 1) \div item_count
    ELSE (size[1] + item_count - 1) \div item_count

SplitDim(vertical, size, item_count) ==
    IF vertical THEN size[2] \div item_count ELSE size[1] \div item_count

FixedDim(vertical, size) == IF vertical THEN size[1] ELSE size[2]

\* i as i16 * split_dim as i16, before the overflow check
Offset(i, split_dim) == CastI16(i) * CastI16(split_dim)

\* the offset applied along the wrong axis
NewPosExactSwapped(vertical, pos, off) ==
    IF vertical THEN <<pos[1] + off, pos[2]>> ELSE <<pos[1], pos[2] + off>>

\* new_pos, before the overflow check of the addition
NewPosExact(vertical, pos, off) ==
    IF vertical THEN <<pos[1], pos[2] + off>> ELSE <<pos[1] + off, pos[2]>>

NewPosOverflows(vertical, pos, i, split_dim) ==
    \/ Overflows16(Offset(i, split_dim))
    \/ Overflows16(NewPosExact(vertical, pos, Wrap16(Offset(i, split_dim)))[1])
    \/ Overflows16(NewPosExact(vertical, pos, Wrap16(Offset(i, split_dim)))[2])

NewPos(vertical, pos, i, split_dim) ==
    LET p == NewPosExact(vertical, pos, Wrap16(Offset(i, split_dim)))
    IN  <<Wrap16(p[1]), Wrap16(p[2])>>

\* the items taken from the far end
ItemAtReversed(items, i) == items[Len(items) - i]

\* the item the enumerate() of the for loop yields at index i
ItemAt(items, i) == items[i + 1]

NewSize(vertical, fixed_dim, split_dim) ==
    IF vertical THEN <<fixed_dim, split_dim>> ELSE <<split_dim, fixed_dim>>

----------------------------------------------------------------------------
(* Webpage arm of spawn_display: strings *)

ClassName(monitor, pos) ==
    "screen_firefox_" \o ToString(monitor.id) \o "_" \o ToString(pos[1])
        \o "_" \o ToString(pos[2])

FirefoxArgs(url, class) == <<"--new-window", url, "--class", class>>

Digits == <<"0", "1", "2", "3", "4", "5", "6", "7", "8", "9">>

IsDigit(c) == \E d \in 1..10 : Digits[d] = c

DigitVal(c) == (CHOOSE d \in 1..10 : Digits[d] = c) - 1

IsSpace(c) == c = " "

RECURSIVE TrimStart(_)
TrimStart(s) ==
    IF s # <<>> /\ IsSpace(Head(s)) THEN TrimStart(Tail(s)) ELSE s

RECURSIVE TrimEnd(_)
TrimEnd(s) ==
    IF s # <<>> /\ IsSpace(s[Len(s)]) THEN TrimEnd(SubSeq(s, 1, Len(s) - 1)) ELSE s

Trim(s) == TrimEnd(TrimStart(s))

\* l.split(':').nth(k) on the text of a line, k counted from 0
RECURSIVE SplitNth(_, _)
SplitNth(s, k) ==
    LET colons == {j \in 1..Len(s) : s[j] = ":"}
        first  == CHOOSE j \in colons : \A j2 \in colons : j <= j2
    IN  IF colons = {}
        THEN IF k = 0 THEN [some |-> TRUE, text |-> s] ELSE [some |-> FALSE, text |-> <<>>]
        ELSE IF k = 0 THEN [some |-> TRUE, text |-> SubSeq(s, 1, first - 1)]
        ELSE SplitNth(SubSeq(s, first + 1, Len(s)), k - 1)

RECURSIVE DigitsValue(_, _)
DigitsValue(s, acc) ==
    IF s = <<>> THEN acc ELSE DigitsValue(Tail(s), 10 * acc + DigitVal(Head(s)))

\* str::parse::<i16>().ok()
ParseI16(s) ==
    LET signed == s # <<>> /\ Head(s) \in {"-", "+"}
        body   == IF signed THEN Tail(s) ELSE s
        mag    == DigitsValue(body, 0)
        val    == IF s # <<>> /\ Head(s) = "-" THEN -mag ELSE mag
    IN  IF body = <<>> \/ \E j \in 1..Len(body) : ~IsDigit(body[j])
        THEN [some |-> FALSE, val |-> 0]
        ELSE IF Overflows16(val) THEN [some |-> FALSE, val |-> 0]
        ELSE [some |-> TRUE, val |-> val]

\* A line of xwininfo output is [label, rest]: the text up to and including
\* the label's colon, and the text after it.
LabelX == "Absolute upper-left X:"
LabelY == "Absolute upper-left Y:"

\* info_str.lines().find(|l| l.contains(label))
FindLine(lines, label) ==
    LET hits == {j \in 1..Len(lines) : lines[j].label = label}
    IN  IF hits = {} THEN [some |-> FALSE, rest |-> <<>>]
        ELSE [some |-> TRUE,
              rest |-> lines[CHOOSE j \in hits : \A j2 \in hits : j <= j2].rest]

\* .and_then(|l| l.split(':').nth(1)).and_then(|x| x.trim().parse::<i16>().ok())
ParseOrigin(lines, label) ==
    LET line  == FindLine(lines, label)
        field == SplitNth(line.rest, 0)
    IN  IF ~line.some THEN [some |-> FALSE, val |-> 0]
        ELSE ParseI16(Trim(field.text))

\* .unwrap_or(0)
UnwrapOr0(opt) == IF opt.some THEN opt.val ELSE 0

MoveArgs(class, dx, dy, adx, ady) ==
    << "[class=\"" \o class \o "\"]",
       "floating enable,",
       "move",
       "left",
       ToString(adx),
       "px",
       IF dx >= 0 THEN "right" ELSE "left",
       ToString(ady),
       "px",
       IF dy >= 0 THEN "down" ELSE "up" >>

----------------------------------------------------------------------------
(* Inputs: inventories, trees, configurations, outputs of the external tools *)

LeafA == Webpage("https://a.example/")
LeafB == Webpage("https://b.example/")
LeafC == Webpage("https://c.example/")

Flat(v, n) == Split(v, [k \in 1..n |-> IF k % 2 = 1 THEN LeafA ELSE LeafB])

Nested == Split(TRUE, <<LeafA, Split(FALSE, <<LeafB, LeafC>>)>>)

BrokenInside == Split(FALSE, <<LeafA, Split(TRUE, <<>>), LeafB>>)

RECURSIVE Chain(_)
Chain(d) == IF d = 0 THEN LeafC ELSE Split(TRUE, <<LeafA, Chain(d - 1)>>)

Trees ==
    {LeafA, Nested, BrokenInside, Chain(ChainDepth)}
        \cup {Flat(v, n) : v \in BOOLEAN, n \in 0..MaxItems}

SecondTrees == {LeafB, Flat(FALSE, 2), Flat(TRUE, 0)}

Inventories ==
    { << Monitor(61, <<0, 0>>), Monitor(62, <<1920, 0>>) >>,
      << Monitor(62, <<0, 1080>>), Monitor(61, <<0, 0>>) >> }

Configs ==
    {<<>>} \cup {(61 :> t) : t \in Trees} \cup {(62 :> t) : t \in SecondTrees}
        \cup {(61 :> t) @@ (62 :> u) : t \in Trees, u \in SecondTrees}

RootSizes == {DefaultSize, <<400, 400>>, <<100, 100>>}

\* what xdotool search prints: zero, one or two window ids
SearchOutputs == {<<>>, <<"6291457">>, <<"6291457", "8388612">>}

Chars(str) ==
    CASE str = "" -> <<>>
      [] str = " 10" -> <<" ", " ", "1", "0">>
      [] str = "-5" -> <<" ", "-", "5", " ">>
      [] str = "max" -> <<" ", "3", "2", "7", "6", "7">>
      [] str = "min" -> <<" ", "-", "3", "2", "7", "6", "8">>
      [] str = "big" -> <<" ", "4", "0", "0", "0", "0">>
      [] str = "bad" -> <<" ", "1", "2", "x">>

FieldTexts == {Chars(t) : t \in {"", " 10", "-5", "max", "min", "big", "bad"}}

\* the lines of xwininfo's stdout that carry one of the two labels
InfoOutputs ==
    {xs \o ys : xs \in {<<>>} \cup {<<[label |-> LabelX, rest |-> t]>> : t \in FieldTexts},
                ys \in {<<>>} \cup {<<[label |-> LabelY, rest |-> t]>> : t \in FieldTexts}}

----------------------------------------------------------------------------
(* The state machine *)

NoLocals ==
    /\ class_name' = ""
    /\ window_id' = <<>>
    /\ info' = <<>>
    /\ current' = <<0, 0>>
    /\ cmd' = <<>>
    /\ spawnArgs' = <<>>
    /\ result' = "None"

InitCommon ==
    /\ monitors \in Inventories
    /\ displays \in Configs
    /\ overflowChecks \in BOOLEAN
    /\ mi = 1
    /\ stack = <<>>
    /\ pc = "connect"
    /\ panicMsg = ""
    /\ class_name = ""
    /\ window_id = <<>>
    /\ info = <<>>
    /\ current = <<0, 0>>
    /\ cmd = <<>>
    /\ spawnArgs = <<>>
    /\ result = "None"
    /\ log = <<>>
    /\ placed = <<>>

\* the program: create_displays passes (800, 600)
Init == InitCommon /\ rootSize = DefaultSize

\* spawn_display as a function of its size argument
InitLayout == InitCommon /\ rootSize \in RootSizes

Top == stack[Len(stack)]

Frame(node, pos, size, path) ==
    [node |-> node, pos |-> pos, size |-> size, path |-> path,
     i |-> 0, split_dim |-> 0, fixed_dim |-> 0]

Event(op) == [op |-> op, mon |-> monitors[mi].id, path |-> Top.path]

Panic(msg) == pc' = "panic" /\ panicMsg' = msg

\* x11rb::connect(None).unwrap()
Connect ==
    /\ pc = "connect"
    /\ \E ok \in BOOLEAN :
        IF ok THEN pc' = "loop" /\ UNCHANGED panicMsg
        ELSE Panic("called Result::unwrap() on an Err value")
    /\ UNCHANGED <<monitors, displays, overflowChecks, rootSize, mi, stack,
                   class_name, window_id, info, current, cmd, spawnArgs, result,
                   log, placed>>

\* for monitor in monitors: displays.get(&monitor.id) is None
SkipMonitor ==
    /\ pc = "loop"
    /\ mi <= Len(monitors)
    /\ monitors[mi].id \notin DOMAIN displays
    /\ mi' = mi + 1
    /\ UNCHANGED <<monitors, displays, overflowChecks, rootSize, stack, pc, panicMsg,
                   class_name, window_id, info, current, cmd, spawnArgs, result,
                   log, placed>>

\* for monitor in monitors: spawn_display(&conn, monitor, display, monitor.pos, (800, 600))
CallMonitor ==
    /\ pc = "loop"
    /\ mi <= Len(monitors)
    /\ monitors[mi].id \in DOMAIN displays
    /\ stack' = <<Frame(displays[monitors[mi].id], monitors[mi].pos, rootSize, <<>>)>>
    /\ pc' = "match"
    /\ UNCHANGED <<monitors, displays, overflowChecks, rootSize, mi, panicMsg,
                   class_name, window_id, info, current, cmd, spawnArgs, result,
                   log, placed>>

\* the for loop of create_displays is exhausted
Finish ==
    /\ pc = "loop"
    /\ mi > Len(monitors)
    /\ pc' = "done"
    /\ UNCHANGED <<monitors, displays, overflowChecks, rootSize, mi, stack, panicMsg,
                   class_name, window_id, info, current, cmd, spawnArgs, result,
                   log, placed>>

\* match display { Display::Webpage { url } => let class_name = format!(...)
EnterWebpage ==
    /\ pc = "match"
    /\ Top.node.kind = "Webpage"
    /\ class_name' = ClassName(monitors[mi], Top.pos)
    /\ result' = "Running"
    /\ pc' = "spawn"
    /\ UNCHANGED <<monitors, displays, overflowChecks, rootSize, mi, stack, panicMsg,
                   window_id, info, current, cmd, spawnArgs, log, placed>>

\* match display { Display::Split { vertical, items } => item_count, split_dim, fixed_dim
EnterSplit ==
    /\ pc = "match"
    /\ Top.node.kind = "Split"
    /\ LET item_count == ItemCount(Top.node.items)
       IN  IF item_count = 0
           THEN /\ Panic("attempt to divide by zero")
                /\ UNCHANGED stack
           ELSE /\ stack' = [stack EXCEPT ![Len(stack)] =
                        [@ EXCEPT !.split_dim = SplitDim(Top.node.vertical, Top.size, item_count),
                                  !.fixed_dim = FixedDim(Top.node.vertical, Top.size)]]
                /\ pc' = "iter"
                /\ UNCHANGED panicMsg
    /\ UNCHANGED <<monitors, displays, overflowChecks, rootSize, mi,
                   class_name, window_id, info, current, cmd, spawnArgs, result,
                   log, placed>>

\* for (i, item) in items.iter().enumerate(): new_pos, new_size, recursive call
IterItem ==
    /\ pc = "iter"
    /\ Top.i < Len(Top.node.items)
    /\ IF overflowChecks /\ NewPosOverflows(Top.node.vertical, Top.pos, Top.i, Top.split_dim)
       THEN /\ Panic("attempt to add with overflow")
            /\ UNCHANGED stack
       ELSE /\ stack' = Append([stack EXCEPT ![Len(stack)].i = @ + 1],
                   Frame(ItemAt(Top.node.items, Top.i),
                         NewPos(Top.node.vertical, Top.pos, Top.i, Top.split_dim),
                         NewSize(Top.node.vertical, Top.fixed_dim, Top.split_dim),
                         Append(Top.path, Top.i)))
            /\ pc' = "match"
            /\ UNCHANGED panicMsg
    /\ UNCHANGED <<monitors, displays, overflowChecks, rootSize, mi,
                   class_name, window_id, info, current, cmd, spawnArgs, result,
                   log, placed>>

\* the for loop over items is exhausted
EndItems ==
    /\ pc = "iter"
    /\ Top.i >= Len(Top.node.items)
    /\ pc' = "flush"
    /\ UNCHANGED <<monitors, displays, overflowChecks, rootSize, mi, stack, panicMsg,
                   class_name, window_id, info, current, cmd, spawnArgs, result,
                   log, placed>>

\* what the Webpage arm knows of the request when it spawns the browser
PlacedRecord ==
    [mon |-> monitors[mi].id, path |-> Top.path, class |-> class_name,
     pos |-> Top.pos, size |-> Top.size]

\* Command::new("firefox").args(["--new-window", url]).args(["--class", &class_name]).spawn().expect(..)
SpawnBrowser ==
    /\ pc = "spawn"
    /\ \E ok \in BOOLEAN :
        IF ok
        THEN /\ spawnArgs' = FirefoxArgs(Top.node.url, class_name)
             /\ log' = Append(log, Event("spawn"))
             /\ placed' = Append(placed, PlacedRecord)
             /\ pc' = "sleep"
             /\ UNCHANGED panicMsg
        ELSE /\ Panic("Failed to spawn browser")
             /\ UNCHANGED <<spawnArgs, log, placed>>
    /\ UNCHANGED <<monitors, displays, overflowChecks, rootSize, mi, stack,
                   class_name, window_id, info, current, cmd, result>>

\* std::thread::sleep(Duration::from_secs(3))
Sleep ==
    /\ pc = "sleep"
    /\ log' = Append(log, Event("sleep"))
    /\ pc' = "search"
    /\ UNCHANGED <<monitors, displays, overflowChecks, rootSize, mi, stack, panicMsg,
                   class_name, window_id, info, current, cmd, spawnArgs, result, placed>>

\* xdotool search --class class_selector; window_id = trimmed stdout
Search ==
    /\ pc = "search"
    /\ \/ /\ Panic("Failed to get window ID")
          /\ UNCHANGED <<window_id, log>>
       \/ \E out \in SearchOutputs :
            /\ window_id' = out
            /\ log' = Append(log, Event("search"))
            /\ pc' = "xwininfo"
            /\ UNCHANGED panicMsg
    /\ UNCHANGED <<monitors, displays, overflowChecks, rootSize, mi, stack,
                   class_name, info, current, cmd, spawnArgs, result, placed>>

\* xwininfo -id window_id; current_x and current_y parsed from its stdout
XWinInfo ==
    /\ pc = "xwininfo"
    /\ \/ /\ Panic("Failed to get window info")
          /\ UNCHANGED <<info, current, log>>
       \/ \E out \in InfoOutputs :
            /\ info' = out
            /\ current' = <<UnwrapOr0(ParseOrigin(out, LabelX)),
                            UnwrapOr0(ParseOrigin(out, LabelY))>>
            /\ log' = Append(log, Event("xwininfo"))
            /\ pc' = "move"
            /\ UNCHANGED panicMsg
    /\ UNCHANGED <<monitors, displays, overflowChecks, rootSize, mi, stack,
                   class_name, window_id, cmd, spawnArgs, result, placed>>

\* dx, dy, dx.abs(), dy.abs() and the i3-msg command
MoveWindow ==
    /\ pc = "move"
    /\ LET ex  == Top.pos[1] - current[1]
           ey  == Top.pos[2] - current[2]
           dx  == Wrap16(ex)
           dy  == Wrap16(ey)
           adx == Wrap16(Abs(dx))
           ady == Wrap16(Abs(dy))
       IN  IF overflowChecks /\ (Overflows16(ex) \/ Overflows16(ey))
           THEN /\ Panic("attempt to subtract with overflow")
                /\ UNCHANGED <<cmd, result, log>>
           ELSE IF overflowChecks /\ (Overflows16(Abs(dx)) \/ Overflows16(Abs(dy)))
           THEN /\ Panic("attempt to negate with overflow")
                /\ UNCHANGED <<cmd, result, log>>
           ELSE \/ /\ Panic("Failed to move window")
                   /\ UNCHANGED <<cmd, result, log>>
                \/ /\ cmd' = MoveArgs(class_name, dx, dy, adx, ady)
                   /\ log' = Append(log, Event("i3-msg"))
                   /\ result' = "Ok"
                   /\ pc' = "flush"
                   /\ UNCHANGED panicMsg
    /\ UNCHANGED <<monitors, displays, overflowChecks, rootSize, mi, stack,
                   class_name, window_id, info, current, spawnArgs, placed>>

\* conn.flush().unwrap() and the return to the caller
Flush ==
    /\ pc = "flush"
    /\ \/ /\ Panic("called Result::unwrap() on an Err value")
          /\ UNCHANGED <<mi, stack, class_name, window_id, info, current, cmd,
                         spawnArgs, result>>
       \/ /\ stack' = SubSeq(stack, 1, Len(stack) - 1)
          /\ IF Len(stack) = 1
             THEN mi' = mi + 1 /\ pc' = "loop"
             ELSE mi' = mi /\ pc' = "iter"
          /\ NoLocals
          /\ UNCHANGED panicMsg
    /\ UNCHANGED <<monitors, displays, overflowChecks, rootSize, log, placed>>

Next ==
    \/ Connect
    \/ SkipMonitor
    \/ CallMonitor
    \/ Finish
    \/ EnterWebpage
    \/ EnterSplit
    \/ IterItem
    \/ EndItems
    \/ SpawnBrowser
    \/ Sleep
    \/ Search
    \/ XWinInfo
    \/ MoveWindow
    \/ Flush

Spec == Init /\ [][Next]_vars

LayoutSpec == InitLayout /\ [][Next]_vars

TypeOK ==
    /\ pc \in {"connect", "loop", "match", "iter", "spawn", "sleep", "search",
               "xwininfo", "move", "flush", "done", "panic"}
    /\ mi \in 1..(Len(monitors) + 1)
    /\ current[1] \in I16Min..I16Max /\ current[2] \in I16Min..I16Max
    /\ \A k \in 1..Len(stack) :
         /\ stack[k].pos[1] \in I16Min..I16Max
         /\ stack[k].pos[2] \in I16Min..I16Max
         /\ stack[k].size[1] \in 0..(U16Mod - 1)
         /\ stack[k].size[2] \in 0..(U16Mod - 1)

----------------------------------------------------------------------------
(* Vocabulary of the properties *)

Range(s) == {s[j] : j \in 1..Len(s)}

Last(s) == s[Len(s)]

AtLeafEnd == pc = "flush" /\ stack # <<>> /\ Top.node.kind = "Webpage"

Terminated == pc \in {"done", "panic"}

\* the paths of the Webpage leaves of a tree, depth first in item order
RECURSIVE LeafPaths(_, _)
LeafPaths(node, path) ==
    IF node.kind = "Webpage" THEN <<path>>
    ELSE LET RECURSIVE From(_)
             From(k) == IF k > Len(node.items) THEN <<>>
                        ELSE LeafPaths(node.items[k], Append(path, k - 1)) \o From(k + 1)
         IN  From(1)

\* the leaves of the whole run: monitors in inventory order, unconfigured ones skipped
RECURSIVE ExpectedLeaves(_)
ExpectedLeaves(k) ==
    IF k > Len(monitors) THEN <<>>
    ELSE (IF monitors[k].id \in DOMAIN displays
          THEN LET ps == LeafPaths(displays[monitors[k].id], <<>>)
               IN  [j \in 1..Len(ps) |-> [mon |-> monitors[k].id, path |-> ps[j]]]
          ELSE <<>>) \o ExpectedLeaves(k + 1)

MonitorOf(id) == CHOOSE m \in Range(monitors) : m.id = id

Inside(pos, size, rpos, rsize) ==
    /\ pos[1] >= rpos[1] /\ pos[1] + size[1] <= rpos[1] + rsize[1]
    /\ pos[2] >= rpos[2] /\ pos[2] + size[2] <= rpos[2] + rsize[2]

Overlap(a, b) ==
    /\ a.pos[1] < b.pos[1] + b.size[1] /\ b.pos[1] < a.pos[1] + a.size[1]
    /\ a.pos[2] < b.pos[2] + b.size[2] /\ b.pos[2] < a.pos[2] + a.size[2]

PositiveArea(a) == a.size[1] > 0 /\ a.size[2] > 0

----------------------------------------------------------------------------
\* C1: laying out a Split whose item list is empty ends in the InvalidTree
\* outcome and never in a division by zero that aborts the process.
C1_EmptySplitIsInvalidTree ==
    (stack # <<>> /\ Top.node.kind = "Split" /\ Len(Top.node.items) = 0 /\ pc # "match")
        => (result = "InvalidTree" /\ pc # "panic")

\* C2: item i (from 0) of a Split with n >= 1 items over (x, y, w, h) is laid
\* out at (x, y + i*floor(h/n)) with size (w, floor(h/n)) when vertical, at
\* (x + i*floor(w/n), y) with size (floor(w/n), h) when horizontal, items being
\* visited in item order; Vertical[A, Horizontal[B, C]] over (0,0,400,400)
\* gives A (0,0,400,200), B (0,200,200,200), C (200,200,200,200).
C2_ChildRectangles ==
    /\ \A k \in 2..Len(stack) :
         LET parent == stack[k - 1]
             child  == stack[k]
             n      == Len(parent.node.items)
             i      == Last(child.path)
             x      == parent.pos[1]
             y      == parent.pos[2]
             w      == parent.size[1]
             h      == parent.size[2]
         IN  /\ n >= 1
             /\ i = parent.i - 1
             /\ child.node = parent.node.items[i + 1]
             /\ child.path = Append(parent.path, i)
             /\ parent.node.vertical =>
                    /\ child.pos = <<x, y + i * (h \div n)>>
                    /\ child.size = <<w, h \div n>>
             /\ ~parent.node.vertical =>
                    /\ child.pos = <<x + i * (w \div n), y>>
                    /\ child.size = <<w \div n, h>>
    /\ \A j \in 1..Len(placed) :
         (/\ displays[placed[j].mon] = Nested
          /\ MonitorOf(placed[j].mon).pos = <<0, 0>>
          /\ rootSize = <<400, 400>>)
            => /\ placed[j].path = <<0>> =>
                    placed[j].pos = <<0, 0>> /\ placed[j].size = <<400, 200>>
               /\ placed[j].path = <<1, 0>> =>
                    placed[j].pos = <<0, 200>> /\ placed[j].size = <<200, 200>>
               /\ placed[j].path = <<1, 1>> =>
                    placed[j].pos = <<200, 200>> /\ placed[j].size = <<200, 200>>
               /\ placed[j].path \in {<<0>>, <<1, 0>>, <<1, 1>>}
               /\ \A j2 \in 1..(j - 1) :
                    placed[j2].mon = placed[j].mon =>
                        <<placed[j2].path, placed[j].path>> \in
                            {<< <<0>>, <<1, 0>> >>, << <<0>>, <<1, 1>> >>,
                             << <<1, 0>>, <<1, 1>> >>}

\* C2 witness: the nested example has been laid out down to its last leaf
C2_Witness ==
    /\ rootSize = <<400, 400>>
    /\ Len(stack) = 3
    /\ stack[1].node = Nested
    /\ stack[1].pos = <<0, 0>>
    /\ stack[3].path = <<1, 1>>
    /\ stack[3].pos = <<200, 200>>
    /\ pc = "flush"
    /\ Len(placed) >= 3

\* C3: every Webpage leaf reached spawns exactly one browser, and the placement
\* carries the leaf's whole rectangle: its origin and its width and height.
C3_PlacementCoversRectangle ==
    AtLeafEnd =>
        /\ Cardinality({j \in 1..Len(placed) :
                placed[j].mon = monitors[mi].id /\ placed[j].path = Top.path}) = 1
        /\ class_name = ClassName(monitors[mi], Top.pos)
        /\ ToString(Top.size[1]) \in Range(spawnArgs) \cup Range(cmd)
        /\ ToString(Top.size[2]) \in Range(spawnArgs) \cup Range(cmd)

\* C4: over a whole run no two browsers are spawned with the same window class.
C4_ClassesDistinct ==
    \A a, b \in 1..Len(placed) : a # b => placed[a].class # placed[b].class

\* C5: when the search prints no window id or more than one, the request ends
\* as DiscoveryFailed and no move command is issued for it.
C5_AmbiguousDiscoveryFails ==
    (AtLeafEnd /\ Len(window_id) # 1) =>
        /\ result = "DiscoveryFailed"
        /\ cmd = <<>>
        /\ Last(log).op # "i3-msg"

RequestFailures ==
    {"Failed to spawn browser", "Failed to get window ID",
     "Failed to get window info", "Failed to move window"}

Spawned(m, path) ==
    \E j \in 1..Len(log) : log[j] = [op |-> "spawn", mon |-> m, path |-> path]

\* C6: a failing step of one request, or one invalid tree, does not keep the
\* other requests and the other configured monitors from being processed.
C6_FailuresIsolated ==
    (pc = "panic" /\ panicMsg \in RequestFailures \cup {"attempt to divide by zero"}) =>
        \A e \in Range(ExpectedLeaves(1)) :
            (IF panicMsg \in RequestFailures
             THEN e # [mon |-> monitors[mi].id, path |-> Top.path]
             ELSE e.mon # monitors[mi].id)
                => Spawned(e.mon, e.path)

Directions == {"left", "right", "up", "down"}

IsDirection(t) == t \in Directions

IsDistance(t) == t \notin Directions \cup {"move", "px", "floating enable,"}

\* C7: with exactly one window found and measured at (mx, my), the command
\* enables floating and then moves by |tx - mx| right or left and |ty - my| down
\* or up, and carries no other direction or distance.
C7_MoveIsDelta ==
    (/\ AtLeafEnd
     /\ Len(window_id) = 1
     /\ ParseOrigin(info, LabelX).some
     /\ ParseOrigin(info, LabelY).some) =>
        LET dx == Top.pos[1] - ParseOrigin(info, LabelX).val
            dy == Top.pos[2] - ParseOrigin(info, LabelY).val
        IN  /\ Len(cmd) >= 2
            /\ cmd[2] = "floating enable,"
            /\ SelectSeq(Tail(cmd), IsDirection)
                 = <<IF dx >= 0 THEN "right" ELSE "left", IF dy >= 0 THEN "down" ELSE "up">>
            /\ SelectSeq(Tail(cmd), IsDistance) = <<ToString(Abs(dx)), ToString(Abs(dy))>>

\* C8: when the measurement output lacks a parseable X or Y origin, or the
\* measurement tool fails, the request ends as MeasurementFailed without a panic.
C8_UnparseableMeasurementFails ==
    /\ (/\ AtLeafEnd
        /\ ~(ParseOrigin(info, LabelX).some /\ ParseOrigin(info, LabelY).some))
            => result = "MeasurementFailed"
    /\ pc = "panic" => panicMsg # "Failed to get window info"

\* C9: in a Split of n >= 1 items the items' sizes along the split axis sum to at
\* most the parent's size, less than n short of it, and equal the parent's size
\* along the other axis; every leaf rectangle lies inside the starting rectangle
\* and no two leaf rectangles of positive area overlap.
C9_Tiling ==
    /\ \A k \in 2..Len(stack) :
         LET parent == stack[k - 1]
             child  == stack[k]
             n      == Len(parent.node.items)
             along  == IF parent.node.vertical THEN 2 ELSE 1
             other  == IF parent.node.vertical THEN 1 ELSE 2
         IN  /\ n * child.size[along] <= parent.size[along]
             /\ parent.size[along] - n * child.size[along] < n
             /\ child.size[other] = parent.size[other]
    /\ \A j \in 1..Len(placed) :
         Inside(placed[j].pos, placed[j].size, MonitorOf(placed[j].mon).pos, rootSize)
    /\ \A a, b \in 1..Len(placed) :
         (/\ a # b
          /\ placed[a].mon = placed[b].mon
          /\ PositiveArea(placed[a])
          /\ PositiveArea(placed[b])) => ~Overlap(placed[a], placed[b])

\* C9 witness: three items over a width of 100, the last at x = 66, 33 wide
C9_Witness ==
    /\ rootSize = <<100, 100>>
    /\ Len(stack) = 2
    /\ Len(stack[1].node.items) = 3
    /\ ~stack[1].node.vertical
    /\ stack[2].pos = <<66, 0>>
    /\ stack[2].size = <<33, 100>>
    /\ Len(placed) = 3
    /\ pc = "flush"

StepOrder == <<"spawn", "sleep", "search", "xwininfo", "i3-msg">>

\* C10: each leaf's steps run as spawn, settle, discover, measure, move, all of
\* them before the next leaf's spawn; leaves run depth first in item order and
\* monitors in inventory order; an unconfigured monitor causes no operation.
C10_Sequential ==
    /\ \A j \in 1..Len(log) :
         /\ log[j].op = StepOrder[((j - 1) % 5) + 1]
         /\ log[j].mon \in DOMAIN displays
         /\ (j - 1) % 5 # 0 =>
                log[j].mon = log[j - 1].mon /\ log[j].path = log[j - 1].path
    /\ LET expected == ExpectedLeaves(1)
           started  == (Len(log) + 4) \div 5
       IN  /\ started <= Len(expected)
           /\ \A q \in 1..started :
                /\ log[5 * (q - 1) + 1].mon = expected[q].mon
                /\ log[5 * (q - 1) + 1].path = expected[q].path
    /\ pc = "done" => Len(log) = 5 * Len(ExpectedLeaves(1))

\* C10 witness: the run is over, the first monitor of the inventory had no
\* entry, the second one's nested tree had all three leaves placed
C10_Witness ==
    /\ pc = "done"
    /\ monitors[1].id \notin DOMAIN displays
    /\ monitors[2].id \in DOMAIN displays
    /\ displays[monitors[2].id] = Nested
    /\ Len(log) = 15
    /\ log[15] = [op |-> "i3-msg", mon |-> monitors[2].id, path |-> <<1, 1>>]

====
